---- MODULE Spec2Model ----
(***************************************************************************)
(* Model of function_app.py: the iRail liveboard ingestion function app.   *)
(*                                                                         *)
(*   get_liveboard -> normalize_liveboard -> insert_into_sql               *)
(*                                                                         *)
(* driven by the HTTP handler get_irail_data and the timer handler         *)
(* fetch_irail_data_timer.  The LiveboardData table is a bag (multiset) of *)
(* rows: the table has no uniqueness constraint, so the same row can be    *)
(* stored more than once.  Every insert_into_sql invocation has its own    *)
(* connection and transaction: its INSERTs are pending until conn.commit() *)
(* and are visible to its own statements only (read-committed reads).      *)
(***************************************************************************)
EXTENDS Integers, Sequences, FiniteSets, Bags, TLC

VARIABLES
    table,            \* committed rows of LiveboardData (a bag of rows)
    pc,               \* pc[p]: position of invocation slot p
    kind,             \* kind[p]: "http", "timer", "call" (a direct call) or "none"
    write_to_sql,     \* write_to_sql[p]: the resolved sql parameter (HTTP)
    response_format,  \* response_format[p]: the resolved format parameter (HTTP)
    json_data,        \* json_data[p]: what get_liveboard returned
    df,               \* df[p]: the rows of the DataFrame (a sequence of records)
    i,                \* i[p]: index of the row the loop of insert_into_sql is at
    pending,          \* pending[p]: rows inserted on p's connection, not committed
    sqlret,           \* sqlret[p]: what insert_into_sql returned, (success, msg)
    resp,             \* resp[p]: what the handler returned
    calls,            \* calls[p]: insert_into_sql calls made by the invocation
    hist,             \* hist[p]: history of a direct call: the table when it began,
                      \* and whether it repeats the call before it
    station,          \* station[p]: the handler's local station
    req,              \* req[p]: the HTTP request the invocation serves
    conn,             \* conn[p]: the pyodbc connection of insert_into_sql
    fetches           \* fetches[p]: get_liveboard calls made by the invocation

vars == <<table, pc, kind, write_to_sql, response_format, json_data, df, i,
          pending, sqlret, resp, calls, hist, station, req, conn,
          fetches>>

-----------------------------------------------------------------------------
(* Bounds of the model.                                                    *)

\* longest batch (number of departure entries) of one invocation
MaxBatch == 2
\* cap on the rows of the table, committed and pending: an invocation starts
\* only when its whole batch still fits
MaxRows == 3

Procs == {1, 2}

-----------------------------------------------------------------------------
(* Values.                                                                 *)

\* Integers beyond 32 bits are pairs (hi, lo) standing for hi * Base + lo
\* with 0 <= lo < Base.
Base == 1000 * 1000

Big(h, l) == [hi |-> h, lo |-> l]

BigGT(a, b) == a.hi > b.hi \/ (a.hi = b.hi /\ a.lo > b.lo)

\* 1000 * a
BigTimes1000(a) ==
    Big(a.hi * 1000 + ((a.lo * 1000) \div Base), (a.lo * 1000) % Base)

\* the literal 1e10 of line 67
MsThreshold == Big(10000, 0)

\* The "time" cell of a DataFrame row: absent (None/NaN), something int()
\* accepts, or a string int() rejects.
NoTime == [kind |-> "nan", hi |-> 0, lo |-> 0]
IntTime(h, l) == [kind |-> "int", hi |-> h, lo |-> l]
BadTime == [kind |-> "str", hi |-> 0, lo |-> 0]

\* A departure_time value: NULL, or an instant in milliseconds after the
\* epoch (datetime.fromtimestamp is exact on whole milliseconds in the range
\* modelled; the naive local datetime stands for the instant, as it does in
\* a zone of fixed offset such as the host's UTC).
NULL == [null |-> TRUE, hi |-> 0, lo |-> 0]
Instant(h, l) == [null |-> FALSE, hi |-> h, lo |-> l]

\* pd.isnull(raw_time), line 63
IsNull(raw_time) == raw_time.kind = "nan"

\* int(raw_time) raises ValueError, line 66
IntRaises(raw_time) == raw_time.kind = "str"

\* Faulty variant: the threshold compared with >= instead of >.
ToDatetimeGE(raw_time) ==
    IF IsNull(raw_time) THEN NULL
    ELSE IF ~BigGT(MsThreshold, raw_time)
         THEN Instant(raw_time.hi, raw_time.lo)
         ELSE LET ms == BigTimes1000(raw_time) IN Instant(ms.hi, ms.lo)

\* lines 63-67: dt for a raw_time on which int() does not raise: None when
\* absent, milliseconds when raw_time > 1e10, seconds otherwise
ToDatetime(raw_time) ==
    IF IsNull(raw_time) THEN NULL
    ELSE IF BigGT(raw_time, MsThreshold)
         THEN Instant(raw_time.hi, raw_time.lo)
         ELSE LET ms == BigTimes1000(raw_time) IN Instant(ms.hi, ms.lo)

\* A cell of the DataFrame is the entry's value, NaN where the entry lacks a
\* key that another entry of the payload has, and Missing where no entry of
\* the payload has the key (the DataFrame has no such column).
NaN == "<NaN>"
Missing == "<no column>"

\* row.get(name, ""): the default is for a column the DataFrame lacks; a
\* NaN cell is returned as it is
Get(cell) == IF cell = Missing THEN "" ELSE cell

\* lines 69-71 and 85-86: the parameters bound to the statement for a row
RowOf(rec) ==
    [station |-> Get(rec.station), vehicle |-> Get(rec.vehicle),
     departure_time |-> ToDatetime(rec.time), platform |-> Get(rec.platform)]

\* A float NaN bound for a character column: the server rejects the
\* parameter and cursor.execute raises.
BindRaises(row) == row.vehicle = NaN \/ row.platform = NaN

\* the identity key of a stored row
KeyOf(row) == <<row.station, row.vehicle, row.departure_time>>

\* SQL's "=" on departure_time: comparing with NULL is UNKNOWN, never TRUE
SqlEqTime(a, b) == ~a.null /\ ~b.null /\ a = b

\* Faulty variant: the existence check leaves the vehicle out of the key.
SqlExistsNoVehicle(rows, st, vehicle, dt) ==
    \E r \in BagToSet(rows) :
        r.station = st /\ SqlEqTime(r.departure_time, dt)

\* lines 76-79: EXISTS (SELECT 1 FROM LiveboardData WHERE station = ? AND
\* vehicle = ? AND departure_time = ?) over the rows the statement can see
SqlExists(rows, st, vehicle, dt) ==
    \E r \in BagToSet(rows) :
        r.station = st /\ r.vehicle = vehicle
        /\ SqlEqTime(r.departure_time, dt)

\* the rows a statement on p's connection sees: the committed table and the
\* connection's own uncommitted inserts
Visible(p) == table (+) pending[p]

\* the rows an invocation in flight may still add to the table: its batch
Reserved(p) ==
    IF pc[p] \in {"normalize", "check_empty", "sql_connect", "sql_row", "sql_insert"}
    THEN IF Len(df[p]) > Len(json_data[p].departure)
         THEN Len(df[p]) ELSE Len(json_data[p].departure)
    ELSE 0

\* committed rows, and the rows the invocations in flight may still add
RowsInUse == BagCardinality(table) + Reserved(1) + Reserved(2)

\* number of committed rows with a given key
KeyCount(k) ==
    LET S == {r \in BagToSet(table) : KeyOf(r) = k}
        RECURSIVE Sum(_)
        Sum(T) == IF T = {} THEN 0
                  ELSE LET r == CHOOSE x \in T : TRUE
                       IN CopiesIn(r, table) + Sum(T \ {r})
    IN Sum(S)

-----------------------------------------------------------------------------
(* Inputs.                                                                 *)

Stations == {"Brussel-Zuid"}
Vehicles == {"BE.NMBS.IC1234", "BE.NMBS.S81711"}
Platforms == {"5", "6"}

\* 1698937200 (seconds) and 1698937200000 (the same instant in milliseconds)
SecTime == IntTime(1698, 937200)
MsTime == IntTime(1698937, 200000)
Times == {NoTime, SecTime, MsTime, BadTime}

\* the departure entries a payload can hold
Records ==
    [station : Stations, vehicle : Vehicles, time : Times, platform : Platforms]

SeqsUpTo(S, n) == UNION {[1..k -> S] : k \in 0..n}

\* the batches handed to insert_into_sql directly
Batches == SeqsUpTo(Records, MaxBatch)

-----------------------------------------------------------------------------
(* insert_into_sql.                                                        *)

\* the message of line 91, without its accent
OkMsg == "Insertion terminee sans doublons."
ErrKey == "'SqlConnectionString'"
ErrConnect == "pyodbc.Error: connect"
ErrValue == "invalid literal for int()"
ErrExecute == "pyodbc.Error: execute"
ErrFloat == "pyodbc.Error: not a valid instance of data type float"
ErrCommit == "pyodbc.Error: commit"

NoRet == [success |-> FALSE, msg |-> ""]
NoResp == [status |-> 0, body |-> "", text |-> "", rows |-> 0]
NoHist == [again |-> FALSE, before |-> EmptyBag, first |-> EmptyBag]
NoJson == [shape |-> "none", departure |-> <<>>]

\* a key that a request's query string or JSON body does not have
Absent == "<absent>"
\* a JSON value that is not a string and that Python takes as true (a number
\* other than 0, a list that is not empty)
NonStr == "<non-string>"

\* An HTTP request: its method, the query string's station, format and sql,
\* the kind of its body ("none", "invalid": not JSON, "array": JSON but not
\* an object, "object") and the body object's station, format and sql.
Request(method, qstation, qformat, qsql, body, bstation, bformat, bsql) ==
    [method |-> method, qstation |-> qstation, qformat |-> qformat,
     qsql |-> qsql, body |-> body, bstation |-> bstation,
     bformat |-> bformat, bsql |-> bsql]

NoReq == Request("none", Absent, Absent, Absent, "none", Absent, Absent, Absent)

\* the row of the DataFrame the loop is at
CurRow(p) == RowOf(df[p][i[p]])

\* Faulty variant: a call that fails keeps its connection open.
SqlReturnLeak(p, success, msg) ==
    /\ sqlret' = [sqlret EXCEPT ![p] = [success |-> success, msg |-> msg]]
    /\ pending' = [pending EXCEPT ![p] = EmptyBag]
    /\ i' = [i EXCEPT ![p] = 0]
    /\ conn' = [conn EXCEPT ![p] = IF @ = "open" /\ success THEN "closed" ELSE @]
    /\ pc' = [pc EXCEPT ![p] = "after_sql"]

\* The call returns: the with block has ended the transaction (what was
\* pending and not committed is rolled back), the frame's reference to the
\* connection, the only one, is dropped, which closes it, and the function's
\* result is (success, msg).
SqlReturn(p, success, msg) ==
    /\ sqlret' = [sqlret EXCEPT ![p] = [success |-> success, msg |-> msg]]
    /\ pending' = [pending EXCEPT ![p] = EmptyBag]
    /\ i' = [i EXCEPT ![p] = 0]
    /\ conn' = [conn EXCEPT ![p] = IF @ = "open" THEN "closed" ELSE @]
    /\ pc' = [pc EXCEPT ![p] = "after_sql"]

\* lines 93-95: an exception anywhere in the try block; return False, str(e)
SqlFail(p, msg) ==
    /\ SqlReturn(p, FALSE, msg)
    /\ UNCHANGED <<table, kind, write_to_sql, response_format, json_data, df,
                   resp, calls, hist, station, req, fetches>>

\* lines 56-58: the connection string is read and the connection opened
SqlConnect(p) ==
    /\ pc[p] = "sql_connect"
    /\ pc' = [pc EXCEPT ![p] = "sql_row"]
    /\ i' = [i EXCEPT ![p] = 1]
    /\ pending' = [pending EXCEPT ![p] = EmptyBag]
    /\ conn' = [conn EXCEPT ![p] = "open"]
    /\ UNCHANGED <<table, kind, write_to_sql, response_format, json_data, df,
                   sqlret, resp, calls, hist, station, req, fetches>>

\* lines 56-57: os.environ[...] raises KeyError, or pyodbc.connect raises
SqlConnectFails(p) ==
    /\ pc[p] = "sql_connect"
    /\ \E msg \in {ErrKey, ErrConnect} : SqlFail(p, msg)

\* lines 62-67: int(raw_time) raises ValueError on the row the loop is at
SqlRowBadTime(p) ==
    /\ pc[p] = "sql_row"
    /\ i[p] <= Len(df[p])
    /\ IntRaises(df[p][i[p]].time)
    /\ SqlFail(p, ErrValue)

\* lines 60-79: the next row is converted and the statement's IF NOT EXISTS
\* is evaluated: a row that exists is skipped, otherwise the INSERT follows
SqlRowCheck(p) ==
    /\ pc[p] = "sql_row"
    /\ i[p] <= Len(df[p])
    /\ ~IntRaises(df[p][i[p]].time)
    /\ ~BindRaises(CurRow(p))
    /\ LET row == CurRow(p) IN
       IF SqlExists(Visible(p), row.station, row.vehicle, row.departure_time)
       THEN /\ i' = [i EXCEPT ![p] = i[p] + 1]
            /\ pc' = pc
       ELSE /\ pc' = [pc EXCEPT ![p] = "sql_insert"]
            /\ i' = i
    /\ UNCHANGED <<table, kind, write_to_sql, response_format, json_data, df,
                   pending, sqlret, resp, calls, hist, station, req, conn,
                   fetches>>

\* Faulty variant: every INSERT is committed at once (autocommit).
SqlInsertAutocommit(p) ==
    /\ pc[p] = "sql_insert"
    /\ table' = table (+) SetToBag({CurRow(p)})
    /\ i' = [i EXCEPT ![p] = i[p] + 1]
    /\ pc' = [pc EXCEPT ![p] = "sql_row"]
    /\ UNCHANGED <<pending, kind, write_to_sql, response_format, json_data,
                   df, sqlret, resp, calls, hist, station, req, conn,
                   fetches>>

\* lines 81-82: INSERT INTO LiveboardData, pending on p's connection
SqlInsert(p) ==
    /\ pc[p] = "sql_insert"
    /\ pending' = [pending EXCEPT ![p] = pending[p] (+) SetToBag({CurRow(p)})]
    /\ i' = [i EXCEPT ![p] = i[p] + 1]
    /\ pc' = [pc EXCEPT ![p] = "sql_row"]
    /\ UNCHANGED <<table, kind, write_to_sql, response_format, json_data, df,
                   sqlret, resp, calls, hist, station, req, conn, fetches>>

\* lines 74-87: cursor.execute raises: a storage failure on the statement,
\* or a parameter the server rejects
SqlExecuteFails(p) ==
    /\ \/ pc[p] = "sql_insert"
       \/ pc[p] = "sql_row" /\ i[p] <= Len(df[p]) /\ ~IntRaises(df[p][i[p]].time)
    /\ SqlFail(p, IF pc[p] = "sql_row" /\ BindRaises(CurRow(p))
                  THEN ErrFloat ELSE ErrExecute)

\* Faulty variant: the commit skips a pending row whose key is already committed
\* (what a unique constraint with conflict-ignore would do).
SqlCommitUnique(p) ==
    /\ pc[p] = "sql_row"
    /\ i[p] > Len(df[p])
    /\ table' = table (+) SetToBag({r \in BagToSet(pending[p]) :
                                      \A t \in BagToSet(table) : KeyOf(t) # KeyOf(r)})
    /\ SqlReturn(p, TRUE, OkMsg)
    /\ UNCHANGED <<kind, write_to_sql, response_format, json_data, df, resp,
                   calls, hist, station, req, fetches>>

\* Faulty variant: success reports the number of rows processed.
SqlCommitCount(p) ==
    /\ pc[p] = "sql_row"
    /\ i[p] > Len(df[p])
    /\ table' = table (+) pending[p]
    /\ SqlReturn(p, TRUE, ToString(Len(df[p])))
    /\ UNCHANGED <<kind, write_to_sql, response_format, json_data, df, resp,
                   calls, hist, station, req, fetches>>

\* lines 89-91: the loop is over; conn.commit() makes the pending rows part
\* of the table and the call returns True with its fixed message
SqlCommit(p) ==
    /\ pc[p] = "sql_row"
    /\ i[p] > Len(df[p])
    /\ table' = table (+) pending[p]
    /\ SqlReturn(p, TRUE, OkMsg)
    /\ UNCHANGED <<kind, write_to_sql, response_format, json_data, df, resp,
                   calls, hist, station, req, fetches>>

\* line 89: conn.commit() raises; nothing of the transaction is applied
SqlCommitFails(p) ==
    /\ pc[p] = "sql_row"
    /\ i[p] > Len(df[p])
    /\ SqlFail(p, ErrCommit)

\* one step of insert_into_sql
SqlStep(p) ==
    \/ SqlConnect(p)
    \/ SqlConnectFails(p)
    \/ SqlRowBadTime(p)
    \/ SqlRowCheck(p)
    \/ SqlInsert(p)
    \/ SqlExecuteFails(p)
    \/ SqlCommit(p)
    \/ SqlCommitFails(p)

-----------------------------------------------------------------------------
(* Direct calls of insert_into_sql(df), one after the other.               *)

\* line 54: insert_into_sql(df) is called with a batch
CallInsert(p, batches) ==
    /\ pc[p] = "idle"
    /\ \E b \in batches :
        /\ RowsInUse + Len(b) <= MaxRows
        /\ df' = [df EXCEPT ![p] = b]
    /\ kind' = [kind EXCEPT ![p] = "call"]
    /\ calls' = [calls EXCEPT ![p] = 1]
    /\ hist' = [hist EXCEPT ![p] = [NoHist EXCEPT !.before = table]]
    /\ pc' = [pc EXCEPT ![p] = "sql_connect"]
    /\ UNCHANGED <<table, write_to_sql, response_format, json_data, i,
                   pending, sqlret, resp, station, req, conn, fetches>>

\* line 54: after a successful call, the identical call is made once more;
\* hist[p].first keeps the table as the first call left it
CallAgain(p) ==
    /\ pc[p] = "after_sql"
    /\ kind[p] = "call"
    /\ sqlret[p].success
    /\ ~hist[p].again
    /\ RowsInUse + Len(df[p]) <= MaxRows
    /\ hist' = [hist EXCEPT ![p] =
                  [again |-> TRUE, before |-> table, first |-> table]]
    /\ calls' = [calls EXCEPT ![p] = 2]
    /\ sqlret' = [sqlret EXCEPT ![p] = NoRet]
    /\ pc' = [pc EXCEPT ![p] = "sql_connect"]
    /\ UNCHANGED <<table, kind, write_to_sql, response_format, json_data, df,
                   i, pending, resp, station, req, conn, fetches>>

\* the invocation is over: its locals are gone, the slot is free again
Finish(p) ==
    /\ pc[p] = "done" \/ (pc[p] = "after_sql" /\ kind[p] = "call")
    /\ pc' = [pc EXCEPT ![p] = "idle"]
    /\ kind' = [kind EXCEPT ![p] = "none"]
    /\ write_to_sql' = [write_to_sql EXCEPT ![p] = FALSE]
    /\ response_format' = [response_format EXCEPT ![p] = ""]
    /\ json_data' = [json_data EXCEPT ![p] = NoJson]
    /\ df' = [df EXCEPT ![p] = <<>>]
    /\ i' = [i EXCEPT ![p] = 0]
    /\ sqlret' = [sqlret EXCEPT ![p] = NoRet]
    /\ resp' = [resp EXCEPT ![p] = NoResp]
    /\ calls' = [calls EXCEPT ![p] = 0]
    /\ hist' = [hist EXCEPT ![p] = NoHist]
    /\ station' = [station EXCEPT ![p] = ""]
    /\ req' = [req EXCEPT ![p] = NoReq]
    /\ conn' = [conn EXCEPT ![p] = "none"]
    /\ fetches' = [fetches EXCEPT ![p] = 0]
    /\ UNCHANGED <<table, pending>>

-----------------------------------------------------------------------------
(* The handlers get_irail_data and fetch_irail_data_timer.                 *)

\* longest departure list of a payload when invocations overlap
MaxLive == 1
\* cap on the rows of the table when invocations overlap
MaxLiveRows == 2

\* The departure entries of the payloads of overlapping invocations: one
\* key on either platform, an entry without time and one with a bad time.
LiveRecords ==
    [station : Stations, vehicle : {"BE.NMBS.IC1234"}, time : {SecTime},
     platform : Platforms]
    \cup [station : Stations, vehicle : {"BE.NMBS.IC1234"},
          time : {NoTime, BadTime}, platform : {"5"}]

\* What response.json() can be: an object with departures.departure, an
\* object without 'departures', one whose 'departures' has no 'departure',
\* or a value that is no object.
PayloadsOf(lists) ==
    {[shape |-> "object", departure |-> d] : d \in lists}
    \cup {[shape |-> s, departure |-> <<>>] :
             s \in {"no_departures", "no_departure", "not_object"}}

\* GET requests
GetRequest(qstation, qformat, qsql) ==
    Request("GET", qstation, qformat, qsql, "none", Absent, Absent, Absent)

\* a POST with sql=false whose body gives a station that is not a string
ListStationRequest ==
    Request("POST", Absent, Absent, "false", "object", NonStr, Absent, Absent)

\* requests of the concurrent handlers: CSV, sql on or off, and the POST
LiveRequests ==
    {GetRequest(Absent, Absent, w) : w \in {Absent, "false"}}
    \cup {ListStationRequest}

\* requests of the sequential handler: both formats, sql on or off, a POST
\* whose body gives a station that is not a string and a POST whose body is
\* not JSON
SeqRequests ==
    {GetRequest(Absent, f, w) : f \in {Absent, "json"}, w \in {Absent, "false"}}
    \cup {ListStationRequest,
          Request("POST", Absent, Absent, Absent, "invalid", Absent, Absent, Absent)}

\* the payloads of overlapping invocations, and of invocations one at a time
LivePayloads == PayloadsOf(SeqsUpTo(LiveRecords, MaxLive))
Payloads == PayloadsOf(Batches)

ErrUpstream == "requests: upstream failure"
ErrAttribute == "object has no attribute 'get'"
ErrReplace == "object has no attribute 'replace'"

\* the handler returns: resp[p] is its response (None for the timer); the
\* payload and the DataFrame, locals of the handler, are gone
Return(p, status, body, text, rows) ==
    /\ resp' = [resp EXCEPT ![p] =
                  [status |-> status, body |-> body, text |-> text, rows |-> rows]]
    /\ json_data' = [json_data EXCEPT ![p] = NoJson]
    /\ df' = [df EXCEPT ![p] = <<>>]
    /\ pc' = [pc EXCEPT ![p] = "done"]

\* Faulty variant: the except clause catches the upstream's errors only, any
\* other exception leaves the handler.
HandlerExceptNarrow(p, msg) ==
    /\ IF msg # ErrUpstream
       THEN /\ pc' = [pc EXCEPT ![p] = "uncaught"]
            /\ UNCHANGED <<resp, json_data, df>>
       ELSE IF kind[p] = "http"
       THEN Return(p, 500, "Server error", msg, 0)
       ELSE Return(p, 0, "", "", 0)
    /\ UNCHANGED <<table, kind, write_to_sql, response_format, i, pending,
                   sqlret, calls, hist, station, req, conn>>

\* lines 157-161 and 185-188: the handler's except clause
HandlerExcept(p, msg) ==
    /\ IF kind[p] = "http"
       THEN Return(p, 500, "Server error", msg, 0)
       ELSE Return(p, 0, "", "", 0)
    /\ UNCHANGED <<table, kind, write_to_sql, response_format, i, pending,
                   sqlret, calls, hist, station, req, conn>>

\* str.lower() on the strings of the model
Lower(s) ==
    CASE s = "JSON" -> "json"
      [] s = "TRUE" -> "true"
      [] s = "True" -> "true"
      [] s = "False" -> "false"
      [] OTHER -> s

\* str(bool)
Str(b) == IF b THEN "True" ELSE "False"

\* Python's truth value of a station: None and "" are false
Truthy(v) == v \notin {Absent, ""}

\* x or 'Brussel-Zuid'
OrDefault(v) == IF Truthy(v) THEN v ELSE "Brussel-Zuid"

\* v.lower() raises AttributeError
LowerRaises(v) == v = NonStr

Params(s, f, w) == [station |-> s, response_format |-> f, write_to_sql |-> w]

\* lines 105-107: the parameters of the query string
QueryParams(r) ==
    Params(r.qstation,
           Lower(IF r.qformat = Absent THEN "csv" ELSE r.qformat),
           Lower(IF r.qsql = Absent THEN "true" ELSE r.qsql) = "true")

\* lines 110-119: the POST branch. The three assignments run in order inside
\* one try block: get_json() raises on a body that is not JSON, .get on a
\* body that is not an object, .lower() on a value that is not a string; the
\* except clause keeps what was assigned before the raise.
BodyParams(r, q) ==
    IF r.body # "object"
    THEN Params(OrDefault(q.station), q.response_format, q.write_to_sql)
    ELSE LET s1 == IF r.bstation = Absent THEN OrDefault(q.station)
                   ELSE r.bstation
             f1 == Lower(IF r.bformat = Absent THEN q.response_format
                         ELSE r.bformat)
             w1 == Lower(IF r.bsql = Absent THEN Str(q.write_to_sql)
                         ELSE r.bsql) = "true"
         IN  IF LowerRaises(r.bformat)
             THEN Params(OrDefault(s1), q.response_format, q.write_to_sql)
             ELSE IF LowerRaises(r.bsql)
             THEN Params(OrDefault(s1), f1, q.write_to_sql)
             ELSE Params(s1, f1, w1)

\* lines 104-121: station, response_format and write_to_sql of a request
ResolveParams(r) ==
    LET q == QueryParams(r)
        b == IF r.method = "POST" THEN BodyParams(r, q) ELSE q
    IN  Params(OrDefault(b.station), b.response_format, b.write_to_sql)

\* lines 100-122: a request arrives and its parameters are resolved
HttpStart(p, requests) ==
    /\ pc[p] = "idle"
    /\ kind' = [kind EXCEPT ![p] = "http"]
    /\ \E r \in requests :
        /\ req' = [req EXCEPT ![p] = r]
        /\ station' = [station EXCEPT ![p] = ResolveParams(r).station]
        /\ response_format' =
              [response_format EXCEPT ![p] = ResolveParams(r).response_format]
        /\ write_to_sql' =
              [write_to_sql EXCEPT ![p] = ResolveParams(r).write_to_sql]
    /\ pc' = [pc EXCEPT ![p] = "fetch"]
    /\ UNCHANGED <<table, json_data, df, i, pending, sqlret, resp, calls,
                   hist, conn, fetches>>

\* lines 166-170: the timer fires
TimerStart(p) ==
    /\ pc[p] = "idle"
    /\ kind' = [kind EXCEPT ![p] = "timer"]
    /\ station' = [station EXCEPT ![p] = "Brussel-Zuid"]
    /\ pc' = [pc EXCEPT ![p] = "fetch"]
    /\ UNCHANGED <<table, write_to_sql, response_format, json_data, df, i,
                   pending, sqlret, resp, calls, hist, req, conn, fetches>>

\* lines 37-45, 124, 171: get_liveboard returns the upstream's JSON
Fetch(p, payloads, cap) ==
    /\ pc[p] = "fetch"
    /\ \E j \in payloads :
        /\ RowsInUse + Len(j.departure) <= cap
        /\ json_data' = [json_data EXCEPT ![p] = j]
    /\ fetches' = [fetches EXCEPT ![p] = fetches[p] + 1]
    /\ pc' = [pc EXCEPT ![p] = "normalize"]
    /\ UNCHANGED <<table, kind, write_to_sql, response_format, df, i,
                   pending, sqlret, resp, calls, hist, station, req, conn>>

\* Faulty variant: a failed fetch is tried once more before it is given up.
FetchFailsRetried(p) ==
    /\ pc[p] = "fetch"
    /\ fetches' = [fetches EXCEPT ![p] = fetches[p] + 1]
    /\ IF fetches[p] = 0
       THEN UNCHANGED <<table, pc, kind, write_to_sql, response_format,
                        json_data, df, i, pending, sqlret, resp, calls, hist,
                        station, req, conn>>
       ELSE HandlerExcept(p, ErrUpstream)

\* lines 43-44: requests.get or raise_for_status raises
FetchFails(p) ==
    /\ pc[p] = "fetch"
    /\ fetches' = [fetches EXCEPT ![p] = fetches[p] + 1]
    /\ HandlerExcept(p, ErrUpstream)

\* line 51, pd.json_normalize: one row per entry, in order; a column per key
\* that some entry has
json_normalize(departures) ==
    LET vehicles == {departures[k].vehicle : k \in DOMAIN departures} \ {Absent}
        platforms == {departures[k].platform : k \in DOMAIN departures} \ {Absent}
    IN  [k \in DOMAIN departures |->
           [departures[k] EXCEPT
              !.vehicle = IF @ # Absent THEN @
                          ELSE IF vehicles = {} THEN Missing ELSE NaN,
              !.platform = IF @ # Absent THEN @
                           ELSE IF platforms = {} THEN Missing ELSE NaN]]

\* Faulty variant: entries that lack a vehicle are dropped.
normalize_liveboard_dropna(j) ==
    IF j.shape = "object"
    THEN json_normalize(SelectSeq(j.departure, LAMBDA e : e.vehicle # Absent))
    ELSE <<>>

\* lines 48-51: the rows of the DataFrame of a payload
normalize_liveboard(j) ==
    IF j.shape = "object" THEN json_normalize(j.departure) ELSE <<>>

\* line 49: .get on a value that is no object raises AttributeError
NormalizeRaises(j) == j.shape = "not_object"

\* lines 125, 172: df = normalize_liveboard(json_data)
Normalize(p) ==
    /\ pc[p] = "normalize"
    /\ ~NormalizeRaises(json_data[p])
    /\ df' = [df EXCEPT ![p] = normalize_liveboard(json_data[p])]
    /\ pc' = [pc EXCEPT ![p] = "check_empty"]
    /\ UNCHANGED <<table, kind, write_to_sql, response_format, json_data, i,
                   pending, sqlret, resp, calls, hist, station, req, conn,
                   fetches>>

NormalizeFails(p) ==
    /\ pc[p] = "normalize"
    /\ NormalizeRaises(json_data[p])
    /\ HandlerExcept(p, ErrAttribute)
    /\ UNCHANGED fetches

\* df.empty, lines 127 and 174
Empty(rows) == Len(rows) = 0

\* the handler calls insert_into_sql(df), lines 131 and 178
CallSql(p) ==
    /\ pc' = [pc EXCEPT ![p] = "sql_connect"]
    /\ calls' = [calls EXCEPT ![p] = calls[p] + 1]
    /\ UNCHANGED <<table, kind, write_to_sql, response_format, json_data, df,
                   i, pending, sqlret, resp, hist, station, req, conn,
                   fetches>>

\* Faulty variant: the store is written before the emptiness test.
HttpEmptyAfterWrite(p) ==
    /\ pc[p] = "check_empty"
    /\ kind[p] = "http"
    /\ Empty(df[p])
    /\ IF write_to_sql[p]
       THEN CallSql(p)
       ELSE /\ Return(p, 404, "not found", "Aucun depart trouve.", 0)
            /\ UNCHANGED <<table, kind, write_to_sql, response_format, i,
                           pending, sqlret, calls, hist, station, req, conn,
                           fetches>>

\* lines 127-128: no departure, the 404 response
HttpEmpty(p) ==
    /\ pc[p] = "check_empty"
    /\ kind[p] = "http"
    /\ Empty(df[p])
    /\ Return(p, 404, "not found", "Aucun depart trouve.", 0)
    /\ UNCHANGED <<table, kind, write_to_sql, response_format, i, pending,
                   sqlret, calls, hist, station, req, conn, fetches>>

\* Faulty variant: the write is handed to the background and the request goes
\* on to its response at once.
HttpCallSqlDeferred(p) ==
    /\ pc[p] = "check_empty"
    /\ kind[p] = "http"
    /\ ~Empty(df[p])
    /\ write_to_sql[p]
    /\ pc' = [pc EXCEPT ![p] = "render"]
    /\ calls' = [calls EXCEPT ![p] = calls[p] + 1]
    /\ sqlret' = [sqlret EXCEPT ![p] = [success |-> TRUE, msg |-> OkMsg]]
    /\ UNCHANGED <<table, kind, write_to_sql, response_format, json_data, df,
                   i, pending, resp, hist, station, req, conn, fetches>>

\* Faulty variant: the rows go to the store whatever sql says.
HttpCallSqlAlways(p) ==
    /\ pc[p] = "check_empty"
    /\ kind[p] = "http"
    /\ ~Empty(df[p])
    /\ CallSql(p)

\* lines 130-131: sql is true, the rows go to the store
HttpCallSql(p) ==
    /\ pc[p] = "check_empty"
    /\ kind[p] = "http"
    /\ ~Empty(df[p])
    /\ write_to_sql[p]
    /\ CallSql(p)

\* line 130: sql is not true, the store is left alone
HttpSkipSql(p) ==
    /\ pc[p] = "check_empty"
    /\ kind[p] = "http"
    /\ ~Empty(df[p])
    /\ ~write_to_sql[p]
    /\ pc' = [pc EXCEPT ![p] = "render"]
    /\ UNCHANGED <<table, kind, write_to_sql, response_format, json_data, df,
                   i, pending, sqlret, resp, calls, hist, station, req, conn,
                   fetches>>

\* Faulty variant: the failure is logged and the body is produced all the same.
HttpSqlFailedIgnored(p) ==
    /\ pc[p] = "after_sql"
    /\ kind[p] = "http"
    /\ ~sqlret[p].success
    /\ pc' = [pc EXCEPT ![p] = "render"]
    /\ UNCHANGED <<table, kind, write_to_sql, response_format, json_data, df,
                   i, pending, sqlret, resp, calls, hist, station, req, conn,
                   fetches>>

\* lines 132-134: insert_into_sql failed, the 500 response with its message
HttpSqlFailed(p) ==
    /\ pc[p] = "after_sql"
    /\ kind[p] = "http"
    /\ ~sqlret[p].success
    /\ Return(p, 500, "Erreur SQL", sqlret[p].msg, 0)
    /\ UNCHANGED <<table, kind, write_to_sql, response_format, i, pending,
                   sqlret, calls, hist, station, req, conn, fetches>>

\* line 132: insert_into_sql succeeded, the body follows
HttpSqlOk(p) ==
    /\ pc[p] = "after_sql"
    /\ kind[p] = "http"
    /\ sqlret[p].success
    /\ pc' = [pc EXCEPT ![p] = "render"]
    /\ UNCHANGED <<table, kind, write_to_sql, response_format, json_data, df,
                   i, pending, sqlret, resp, calls, hist, station, req, conn,
                   fetches>>

\* line 153: station.replace raises AttributeError on a station that is not
\* a string
RenderRaises(p) == response_format[p] # "json" /\ station[p] = NonStr

\* lines 136-155: the 200 response, a JSON array or a CSV attachment of the
\* rows of df
HttpRender(p) ==
    /\ pc[p] = "render"
    /\ ~RenderRaises(p)
    /\ IF response_format[p] = "json"
       THEN Return(p, 200, "json", "", Len(df[p]))
       ELSE Return(p, 200, "csv", "", Len(df[p]))
    /\ UNCHANGED <<table, kind, write_to_sql, response_format, i, pending,
                   sqlret, calls, hist, station, req, conn, fetches>>

\* lines 144-155, 157-161: building the CSV response raises
HttpRenderFails(p) ==
    /\ pc[p] = "render"
    /\ RenderRaises(p)
    /\ HandlerExcept(p, ErrReplace)
    /\ UNCHANGED fetches

\* lines 174-176: no departure, a warning and return
TimerEmpty(p) ==
    /\ pc[p] = "check_empty"
    /\ kind[p] = "timer"
    /\ Empty(df[p])
    /\ Return(p, 0, "", "", 0)
    /\ UNCHANGED <<table, kind, write_to_sql, response_format, i, pending,
                   sqlret, calls, hist, station, req, conn, fetches>>

\* Faulty variant: the timer honours the write switch of the HTTP handler.
TimerCallSqlSwitched(p) ==
    /\ pc[p] = "check_empty"
    /\ kind[p] = "timer"
    /\ ~Empty(df[p])
    /\ IF write_to_sql[p]
       THEN CallSql(p)
       ELSE /\ Return(p, 0, "", "", 0)
            /\ UNCHANGED <<table, kind, write_to_sql, response_format, i,
                           pending, sqlret, calls, hist, station, req, conn,
                           fetches>>

\* line 178: the timer always writes
TimerCallSql(p) ==
    /\ pc[p] = "check_empty"
    /\ kind[p] = "timer"
    /\ ~Empty(df[p])
    /\ CallSql(p)

\* lines 179-183: the outcome is logged, nothing is returned
TimerAfterSql(p) ==
    /\ pc[p] = "after_sql"
    /\ kind[p] = "timer"
    /\ Return(p, 0, "", "", 0)
    /\ UNCHANGED <<table, kind, write_to_sql, response_format, i, pending,
                   sqlret, calls, hist, station, req, conn, fetches>>

\* one step of a handler invocation in slot p
HandlerStep(p, requests, payloads, cap) ==
    \/ HttpStart(p, requests)
    \/ TimerStart(p)
    \/ Fetch(p, payloads, cap)
    \/ FetchFails(p)
    \/ Normalize(p)
    \/ NormalizeFails(p)
    \/ HttpEmpty(p)
    \/ HttpCallSql(p)
    \/ HttpSkipSql(p)
    \/ HttpSqlFailed(p)
    \/ HttpSqlOk(p)
    \/ HttpRender(p)
    \/ HttpRenderFails(p)
    \/ TimerEmpty(p)
    \/ TimerCallSql(p)
    \/ TimerAfterSql(p)

Init ==
    /\ table = EmptyBag
    /\ pc = [p \in Procs |-> "idle"]
    /\ kind = [p \in Procs |-> "none"]
    /\ write_to_sql = [p \in Procs |-> FALSE]
    /\ response_format = [p \in Procs |-> ""]
    /\ json_data = [p \in Procs |-> NoJson]
    /\ df = [p \in Procs |-> <<>>]
    /\ i = [p \in Procs |-> 0]
    /\ pending = [p \in Procs |-> EmptyBag]
    /\ sqlret = [p \in Procs |-> NoRet]
    /\ resp = [p \in Procs |-> NoResp]
    /\ calls = [p \in Procs |-> 0]
    /\ hist = [p \in Procs |-> NoHist]
    /\ station = [p \in Procs |-> ""]
    /\ req = [p \in Procs |-> NoReq]
    /\ conn = [p \in Procs |-> "none"]
    /\ fetches = [p \in Procs |-> 0]

\* sequential direct calls on one slot
NextSql ==
    \/ CallInsert(1, Batches)
    \/ CallAgain(1)
    \/ SqlStep(1)
    \/ Finish(1)

SpecSql == Init /\ [][NextSql]_vars

\* The raw time values of the timestamp derivation: absent, not an integer,
\* and integers hi * 10^6 + lo on both sides of 10^10 and of 10^7.
TimeInputs ==
    {NoTime, BadTime}
    \cup {IntTime(h, l) : h \in {-1, 0, 9, 10, 1698, 9999, 10000, 10001, 1698937},
                          l \in {0, 1, 200000, 937200, 999999}}

\* one direct call with one record, for every raw time value
InitTime ==
    /\ table = EmptyBag
    /\ pc = [p \in Procs |-> IF p = 1 THEN "sql_connect" ELSE "idle"]
    /\ kind = [p \in Procs |-> IF p = 1 THEN "call" ELSE "none"]
    /\ write_to_sql = [p \in Procs |-> FALSE]
    /\ response_format = [p \in Procs |-> ""]
    /\ json_data = [p \in Procs |-> NoJson]
    /\ \E t \in TimeInputs :
          df = [p \in Procs |->
                  IF p = 1
                  THEN <<[station |-> "Brussel-Zuid", vehicle |-> "BE.NMBS.IC1234",
                          time |-> t, platform |-> "5"]>>
                  ELSE <<>>]
    /\ i = [p \in Procs |-> 0]
    /\ pending = [p \in Procs |-> EmptyBag]
    /\ sqlret = [p \in Procs |-> NoRet]
    /\ resp = [p \in Procs |-> NoResp]
    /\ calls = [p \in Procs |-> IF p = 1 THEN 1 ELSE 0]
    /\ hist = [p \in Procs |-> NoHist]
    /\ station = [p \in Procs |-> ""]
    /\ req = [p \in Procs |-> NoReq]
    /\ conn = [p \in Procs |-> "none"]
    /\ fetches = [p \in Procs |-> 0]

NextTime == SqlStep(1)

SpecTime == InitTime /\ [][NextTime]_vars

\* overlapping invocations of the two handlers
Next ==
    \E p \in Procs :
        \/ HandlerStep(p, LiveRequests, LivePayloads, MaxLiveRows)
        \/ SqlStep(p)
        \/ Finish(p)

Spec == Init /\ [][Next]_vars

\* handler invocations one at a time
NextSeq ==
    \/ HandlerStep(1, SeqRequests, Payloads, MaxRows)
    \/ SqlStep(1)
    \/ Finish(1)

SpecSeq == Init /\ [][NextSeq]_vars

\* Departure entries that leave out vehicle or platform, and one with a bad
\* time.
FieldRecords ==
    [station : Stations, vehicle : {"BE.NMBS.IC1234", Absent}, time : {SecTime},
     platform : {"5", Absent}]
    \cup {[station |-> "Brussel-Zuid", vehicle |-> "BE.NMBS.IC1234",
            time |-> BadTime, platform |-> "5"]}

FieldPayloads == PayloadsOf(SeqsUpTo(FieldRecords, MaxBatch))

\* the handlers, one invocation at a time, on payloads whose entries may
\* leave fields out
NextFields ==
    \/ HandlerStep(1, SeqRequests, FieldPayloads, MaxRows)
    \/ SqlStep(1)
    \/ Finish(1)

SpecFields == Init /\ [][NextFields]_vars

\* Every request of the model: a GET, or a POST with a body that is not
\* JSON, is JSON but no object, or is an object with any of the three keys.
QueryStations == {Absent, "", "Gent-Sint-Pieters"}
QueryFormats == {Absent, "csv", "JSON"}
QuerySqls == {Absent, "TRUE", "false", "1"}
BodyStations == {Absent, "", "Antwerpen-Centraal", NonStr}
BodyFormats == {Absent, "JSON", "csv", NonStr}
BodySqls == {Absent, "True", "false", NonStr}

AllRequests ==
    {GetRequest(s, f, w) : s \in QueryStations, f \in QueryFormats, w \in QuerySqls}
    \cup {Request("POST", s, f, w, b, Absent, Absent, Absent) :
            s \in QueryStations, f \in QueryFormats, w \in QuerySqls,
            b \in {"invalid", "array"}}
    \cup UNION {{Request("POST", s, f, w, "object", bs, bf, bw) :
                   s \in QueryStations, f \in QueryFormats, w \in QuerySqls} :
                 bs \in BodyStations, bf \in BodyFormats, bw \in BodySqls}

\* the parameter resolution alone, for every request
NextParams == HttpStart(1, AllRequests)

SpecParams == Init /\ [][NextParams]_vars

-----------------------------------------------------------------------------
(* The claims.                                                             *)

\* a direct call of insert_into_sql in slot p has returned
AfterCall(p) == pc[p] = "after_sql" /\ kind[p] = "call"

\* the step by which slot p commits: the loop is over and the call succeeds
CommitStep(p) ==
    pc[p] = "sql_row" /\ i[p] > Len(df[p]) /\ pc'[p] = "after_sql"
    /\ sqlret'[p].success

ErrorMessages == {ErrKey, ErrConnect, ErrValue, ErrExecute, ErrCommit}

\* C1: after any sequence of sequential insert_into_sql calls starting from
\* an empty table, the table holds at most one row for every key (station,
\* vehicle, departure_time), the null departure_time included.
C1_AtMostOneRowPerKey ==
    \A r \in BagToSet(table) : KeyCount(KeyOf(r)) <= 1

\* C2: insert_into_sql(R) run a second time right after a successful
\* insert_into_sql(R) leaves the table as the first call left it.
C2_SecondCallInsertsNothing ==
    \A p \in Procs :
        (AfterCall(p) /\ hist[p].again /\ sqlret[p].success)
            => table = hist[p].first

\* C3: nothing in the commit of one invocation drops a pending row whose
\* key another invocation has committed meanwhile: every commit adds all the
\* rows pending on its connection, so two overlapping invocations that both
\* passed the existence check for one key both store their row.
C3_CommitKeepsPendingRows ==
    [][\A p \in Procs : CommitStep(p) => table' = table (+) pending[p]]_vars

\* two rows with one key whose departure_time is not null, left by an HTTP
\* and a timer invocation that overlapped and both succeeded
C3_DuplicateReached ==
    /\ \E r \in BagToSet(table) :
          ~r.departure_time.null /\ KeyCount(KeyOf(r)) >= 2
    /\ kind[1] = "http" /\ kind[2] = "timer"
    /\ pc[1] = "done" /\ pc[2] = "done"
    /\ sqlret[1].success /\ sqlret[2].success

\* C4: insert_into_sql commits once, after the loop: the table is the one
\* from before the call for as long as the call runs, and when a step before
\* the commit fails (connection string, connect, a non-integer time, a
\* statement) the call returns failure with the error's message, the table
\* is the one from before the call and nothing stays pending.
C4_FailureCommitsNothing ==
    \A p \in Procs :
        /\ (kind[p] = "call" /\ pc[p] \in {"sql_connect", "sql_row", "sql_insert"})
              => table = hist[p].before
        /\ (AfterCall(p) /\ ~sqlret[p].success /\ sqlret[p].msg # ErrCommit)
              => /\ table = hist[p].before
                 /\ pending[p] = EmptyBag
                 /\ sqlret[p].msg \in {ErrKey, ErrConnect, ErrValue, ErrExecute}

\* a call on an empty table failed on the bad time of its second row, after
\* its first row had been inserted: nothing is in the table
C4_FailedOnSecondRow ==
    /\ AfterCall(1) /\ ~sqlret[1].success /\ sqlret[1].msg = ErrValue
    /\ Len(df[1]) = 2
    /\ ~IntRaises(df[1][1].time) /\ IntRaises(df[1][2].time)
    /\ hist[1].before = EmptyBag /\ table = EmptyBag

\* C5: for every integer epoch value e the stored departure_time is the
\* instant e milliseconds after the epoch when e > 10^10 and the instant e
\* seconds (1000 * e milliseconds) after it otherwise, e = 10^10 included;
\* an absent time is stored as null.  So a seconds value s and the
\* milliseconds value 1000 * s that exceeds 10^10 (10^7 < s <= 10^10) give
\* the same departure_time and the same key.
C5_TimestampDerivation ==
    \A p \in Procs :
        (AfterCall(p) /\ sqlret[p].success /\ Len(df[p]) = 1) =>
            LET e == df[p][1].time
                ms == IntTime(1000 * e.hi + (e.lo \div 1000), (e.lo % 1000) * 1000)
                exceeds == e.hi > 10000 \/ (e.hi = 10000 /\ e.lo > 0)
                msExceeds == e.hi > 10 \/ (e.hi = 10 /\ e.lo > 0)
            IN  /\ BagCardinality(table) = 1
                /\ \A r \in BagToSet(table) :
                    /\ e.kind = "nan" => r.departure_time = NULL
                    /\ (e.kind = "int" /\ exceeds)
                          => r.departure_time = Instant(e.hi, e.lo)
                    /\ (e.kind = "int" /\ ~exceeds)
                          => r.departure_time = Instant(ms.hi, ms.lo)
                    /\ (e.kind = "int" /\ ~exceeds /\ msExceeds)
                          => KeyOf(RowOf([df[p][1] EXCEPT !.time = ms])) = KeyOf(r)

\* the seconds value 1698937200 was stored as the instant 1698937200000 ms
C5_SecondsStored ==
    /\ AfterCall(1) /\ sqlret[1].success
    /\ df[1][1].time = SecTime
    /\ \E r \in BagToSet(table) : r.departure_time = Instant(1698937, 200000)

\* C6: no false deduplication: after a successful call every record's key
\* is in the table, and a record whose key was neither in the table before
\* the call nor on an earlier record of the batch is stored as its own row.
C6_NoFalseDedup ==
    \A p \in Procs :
        (AfterCall(p) /\ sqlret[p].success) =>
            \A k \in 1..Len(df[p]) :
                LET row == RowOf(df[p][k]) IN
                /\ KeyCount(KeyOf(row)) >= 1
                /\ ( /\ \A r \in BagToSet(hist[p].before) : KeyOf(r) # KeyOf(row)
                     /\ \A j \in 1..(k - 1) : KeyOf(RowOf(df[p][j])) # KeyOf(row) )
                      => CopiesIn(row, table) >= 1

\* two records differing only in vehicle were both stored
C6_BothVehiclesStored ==
    /\ AfterCall(1) /\ sqlret[1].success
    /\ Len(df[1]) = 2
    /\ df[1][1].vehicle # df[1][2].vehicle
    /\ df[1][1].time = SecTime /\ df[1][2].time = SecTime
    /\ df[1][1].platform = df[1][2].platform
    /\ hist[1].before = EmptyBag
    /\ CopiesIn(RowOf(df[1][1]), table) = 1
    /\ CopiesIn(RowOf(df[1][2]), table) = 1

\* C7, as claimed: a successful upsert returns the number of records of the
\* batch.
C7_ReturnsCount ==
    \A p \in Procs :
        (AfterCall(p) /\ sqlret[p].success)
            => sqlret[p].msg = ToString(Len(df[p]))

\* C7, amended: a successful upsert returns True with one fixed message,
\* whatever the number of records processed or inserted; a failed upsert
\* returns False with the message of the exception raised.
C7_ReturnsFixedMessage ==
    \A p \in Procs :
        AfterCall(p) =>
            IF sqlret[p].success
            THEN sqlret[p].msg = OkMsg
            ELSE /\ sqlret[p].msg \in ErrorMessages
                 /\ sqlret[p].msg = ErrValue
                       => \E k \in 1..Len(df[p]) : IntRaises(df[p][k].time)

\* two records processed, one of them skipped as a duplicate, and the fixed
\* message returned
C7_TwoProcessedOneInserted ==
    /\ AfterCall(1) /\ sqlret[1].success /\ sqlret[1].msg = OkMsg
    /\ Len(df[1]) = 2
    /\ hist[1].before = EmptyBag
    /\ BagCardinality(table) = 1

\* C8: rows are insert-only: no step removes or changes a committed row, and
\* a commit adds no row whose key is already in the table (a record whose
\* key exists is skipped, whatever its platform).
C8_InsertOnly ==
    [][ /\ \A r \in BagToSet(table) : CopiesIn(r, table') >= CopiesIn(r, table)
        /\ \A p \in Procs :
              CommitStep(p) =>
                  \A r \in BagToSet(pending[p]) :
                      \A t \in BagToSet(table) : KeyOf(t) # KeyOf(r) ]_vars

\* C9: when the normalized row set is empty, get_irail_data returns the 404
\* response without calling insert_into_sql, whatever the sql parameter, and
\* the table is unchanged.
C9_EmptyGives404 ==
    [][\A p \in Procs :
          (pc[p] = "check_empty" /\ kind[p] = "http" /\ Empty(df[p]))
              => /\ pc'[p] = "done"
                 /\ resp'[p].status = 404
                 /\ calls'[p] = 0
                 /\ table' = table]_vars

\* a request with sql true met an empty row set and got the 404 response
C9_NotFoundWithSqlTrue ==
    /\ pc[1] = "done" /\ kind[1] = "http" /\ write_to_sql[1]
    /\ resp[1].status = 404 /\ calls[1] = 0

\* C10: with sql true, a failure of insert_into_sql makes get_irail_data
\* return the 500 response with the error's text; the CSV or JSON body is
\* never produced for that request.
C10_StoreFailureGives500 ==
    \A p \in Procs :
        (kind[p] = "http" /\ calls[p] >= 1) =>
            /\ pc[p] = "render" => sqlret[p].success
            /\ (pc[p] = "done" /\ ~sqlret[p].success)
                  => /\ resp[p].status = 500
                     /\ resp[p].body = "Erreur SQL"
                     /\ resp[p].text = sqlret[p].msg
                     /\ resp[p].rows = 0

\* a request with sql true whose batch failed on a bad time got the 500
C10_BadTimeGives500 ==
    /\ pc[1] = "done" /\ kind[1] = "http" /\ write_to_sql[1] /\ calls[1] = 1
    /\ ~sqlret[1].success /\ sqlret[1].msg = ErrValue
    /\ resp[1].status = 500 /\ resp[1].text = ErrValue

\* C11: no failure escapes a handler. Whatever fails (the body's parsing, the
\* fetch, the normalization, the store, the rendering), an invocation of
\* get_irail_data ends with a response of status 404, 500 or 200 and one of
\* fetch_irail_data_timer ends returning None; no invocation ends with an
\* exception, and one that has not ended can take its next step.
C11_NoFailureEscapes ==
    \A p \in Procs :
        /\ pc[p] \in {"idle", "fetch", "normalize", "check_empty", "sql_connect",
                      "sql_row", "sql_insert", "after_sql", "render", "done"}
        /\ pc[p] = "done" /\ kind[p] = "http"
              => resp[p].status \in {200, 404, 500}
        /\ pc[p] = "done" /\ kind[p] = "timer" => resp[p] = NoResp
        /\ pc[p] \notin {"idle", "done"}
              => ENABLED (HandlerStep(p, SeqRequests, Payloads, MaxRows) \/ SqlStep(p))

\* the CSV rendering raised on a station that is not a string, and the
\* request got its 500 response
C11_RenderFailureReturned ==
    /\ pc[1] = "done" /\ kind[1] = "http"
    /\ station[1] = NonStr
    /\ resp[1] = [status |-> 500, body |-> "Server error", text |-> ErrReplace,
                  rows |-> 0]

\* C12: a failed fetch ends the invocation there: the on-demand handler
\* answers 500, the scheduled handler returns None; insert_into_sql has not
\* been called, the table is as it was, and get_liveboard is called once per
\* invocation, never again after a failure.
C12_UpstreamFailureEnds ==
    [][\A p \in Procs :
          /\ fetches'[p] <= 1
          /\ pc[p] = "fetch" /\ pc'[p] \notin {"fetch", "normalize"}
                => /\ pc'[p] = "done"
                   /\ resp'[p] = IF kind[p] = "http"
                                 THEN [status |-> 500, body |-> "Server error",
                                       text |-> ErrUpstream, rows |-> 0]
                                 ELSE NoResp
                   /\ calls'[p] = 0
                   /\ table' = table]_vars

\* a request's fetch failed when the table already had a row
C12_UpstreamFailedWithRows ==
    /\ pc[1] = "done" /\ kind[1] = "http"
    /\ resp[1].status = 500 /\ resp[1].text = ErrUpstream
    /\ fetches[1] = 1 /\ calls[1] = 0
    /\ table # EmptyBag

\* what the body or else the query string gives for a parameter, else its
\* default
Given(r, b, q, default) ==
    IF r.method = "POST" /\ r.body = "object" /\ b # Absent THEN b
    ELSE IF q # Absent THEN q
    ELSE default

\* C13: parameter resolution. A parameter that a POST's JSON body has takes
\* the body's value, one the body lacks takes the query string's value, one
\* that neither has takes its default ('Brussel-Zuid', 'csv', true); a GET,
\* or a POST whose body is not JSON, resolves from the query string and the
\* defaults. format is compared in lower case, sql is true for 'true' in any
\* case and false for any other value, and the station is never empty.
C13_BodyOverridesQuery ==
    \A p \in Procs :
        pc[p] = "fetch" /\ kind[p] = "http" =>
            LET r == req[p]
                s == Given(r, r.bstation, r.qstation, "Brussel-Zuid")
                f == Given(r, r.bformat, r.qformat, "csv")
                w == Given(r, r.bsql, r.qsql, "true")
            IN  /\ station[p] \notin {Absent, ""}
                /\ station[p] = IF s = "" THEN "Brussel-Zuid" ELSE s
                /\ f # NonStr => response_format[p] = Lower(f)
                /\ write_to_sql[p] = (Lower(w) = "true")

\* C14: the scheduled handler. Its station is 'Brussel-Zuid' whatever the
\* input, with rows to store it calls insert_into_sql, once per invocation
\* and with no switch to turn the write off, and on every path it returns
\* None.
C14_TimerWritesOnce ==
    [][\A p \in Procs :
          kind'[p] = "timer" =>
              /\ station'[p] = "Brussel-Zuid"
              /\ calls'[p] <= 1
              /\ pc[p] = "check_empty" /\ ~Empty(df[p]) /\ pc'[p] # pc[p]
                    => pc'[p] = "sql_connect" /\ calls'[p] = 1
              /\ pc[p] = "check_empty" /\ Empty(df[p]) => calls'[p] = 0
              /\ pc'[p] = "done" => resp'[p] = NoResp]_vars

\* a timer invocation stored its rows with one call and returned None
C14_TimerStoredRows ==
    /\ pc[1] = "done" /\ kind[1] = "timer"
    /\ station[1] = "Brussel-Zuid"
    /\ calls[1] = 1 /\ sqlret[1].success
    /\ table # EmptyBag
    /\ resp[1] = NoResp

\* C15: normalize_liveboard. A payload object with N entries at
\* departures.departure gives N rows, in the entries' order, each with the
\* values of the fields its entry has; a payload object without 'departures'
\* or without 'departures.departure' gives no rows; neither raises.
C15_NormalizeKeepsEntries ==
    [][\A p \in Procs :
          pc[p] = "normalize" /\ pc'[p] # "normalize"
          /\ json_data[p].shape \in {"object", "no_departures", "no_departure"}
          => /\ pc'[p] = "check_empty"
             /\ LET d == IF json_data[p].shape = "object"
                         THEN json_data[p].departure ELSE <<>>
                    rows == df'[p]
                IN  /\ Len(rows) = Len(d)
                    /\ \A k \in 1..Len(d) :
                          /\ rows[k].station = d[k].station
                          /\ rows[k].time = d[k].time
                          /\ d[k].vehicle # Absent
                                => rows[k].vehicle = d[k].vehicle
                          /\ d[k].platform # Absent
                                => rows[k].platform = d[k].platform]_vars

\* two different entries, the second without a vehicle, became two rows
C15_TwoEntriesTwoRows ==
    /\ pc[1] = "check_empty"
    /\ Len(json_data[1].departure) = 2 /\ Len(df[1]) = 2
    /\ json_data[1].departure[1].vehicle = "BE.NMBS.IC1234"
    /\ json_data[1].departure[2].vehicle = Absent
    /\ df[1][1].vehicle = "BE.NMBS.IC1234"

\* C16: each insert_into_sql call works on a connection of its own, open
\* from the connect to the return, and whichever way the call ends (commit,
\* store error, exception in the loop) it has no open connection and no
\* open transaction once it has returned.
C16_ConnectionReleased ==
    \A p \in Procs :
        IF pc[p] \in {"sql_row", "sql_insert"}
        THEN conn[p] = "open"
        ELSE conn[p] # "open" /\ pending[p] = EmptyBag

\* a call that failed in its loop has returned with its connection closed
\* while the other invocation's connection is open
C16_ClosedAfterFailure ==
    /\ pc[1] = "after_sql"
    /\ ~sqlret[1].success /\ sqlret[1].msg = ErrValue
    /\ conn[1] = "closed"
    /\ conn[2] = "open"

\* the value stored for a field of an entry: the empty string when the entry
\* leaves the field out
Stored(v) == IF v = Absent THEN "" ELSE v

\* C17: an entry that leaves out vehicle or platform is stored with the empty
\* string in that column, each entry for itself and whatever the other
\* entries of the payload have, and leaving a field out does not make the
\* call fail.
C17_OmittedFieldStoredEmpty ==
    [][\A p \in Procs :
          /\ pc[p] = "sql_insert" /\ pending'[p] # pending[p]
                => LET e == json_data[p].departure[i[p]]
                   IN  pending'[p] = pending[p] (+) SetToBag({
                           [station |-> e.station,
                            vehicle |-> Stored(e.vehicle),
                            departure_time |-> ToDatetime(e.time),
                            platform |-> Stored(e.platform)]})
          /\ pc'[p] = "after_sql" => sqlret'[p].msg # ErrFloat]_vars

\* C18: deduplication inside one batch. When a call that succeeded was given
\* two or more records with the same (station, vehicle, departure_time), a
\* key the table did not have when the call began, the table has one row for
\* the key: that of the first of these records, with its platform.
C18_OneRowPerBatchKey ==
    \A p \in Procs :
        AfterCall(p) /\ sqlret[p].success =>
            \A a, b \in 1..Len(df[p]) :
                LET first == RowOf(df[p][a])
                IN  /\ a < b
                    /\ KeyOf(RowOf(df[p][b])) = KeyOf(first)
                    /\ \A c \in 1..(a - 1) : KeyOf(RowOf(df[p][c])) # KeyOf(first)
                    /\ \A r \in BagToSet(hist[p].before) : KeyOf(r) # KeyOf(first)
                    => /\ KeyCount(KeyOf(first)) = 1
                       /\ CopiesIn(first, table) = 1

\* an HTTP invocation with the write switch off
WriteOff(p) == kind[p] = "http" /\ ~write_to_sql[p]

\* the 200 response for the rows of df[p]
Rendered(p) ==
    [status |-> 200, body |-> IF response_format[p] = "json" THEN "json" ELSE "csv",
     text |-> "", rows |-> Len(df[p])]

HttpOrder ==
    {<<"fetch", "normalize">>, <<"normalize", "check_empty">>,
     <<"check_empty", "sql_connect">>, <<"sql_connect", "sql_row">>,
     <<"sql_row", "sql_insert">>, <<"sql_insert", "sql_row">>,
     <<"sql_row", "after_sql">>, <<"after_sql", "render">>,
     <<"render", "done">>,
     <<"fetch", "done">>, <<"normalize", "done">>, <<"check_empty", "done">>,
     <<"sql_connect", "after_sql">>, <<"sql_insert", "after_sql">>,
     <<"after_sql", "done">>}

\* C20: a request that writes goes through fetch, normalize, upsert and
\* commit, response, in this order; when it answers 200 its one call of
\* insert_into_sql has returned success, so the commit is done and the table
\* has a row for the key of every row of the batch.
C20_CommitBeforeResponse ==
    [][\A p \in Procs :
          kind[p] = "http" /\ write_to_sql[p] /\ pc'[p] # pc[p] /\ pc[p] # "done"
          => /\ <<pc[p], pc'[p]>> \in HttpOrder
             /\ pc'[p] = "done" /\ resp'[p].status = 200
                   => /\ fetches[p] = 1 /\ calls[p] = 1
                      /\ sqlret[p].success
                      /\ pending[p] = EmptyBag
                      /\ \A k \in 1..Len(df[p]) :
                            KeyCount(KeyOf(RowOf(df[p][k]))) >= 1]_vars

\* a request answered 200 for two rows of different keys, both in the table
C20_BothKeysCommitted ==
    /\ pc[1] = "done" /\ kind[1] = "http" /\ write_to_sql[1]
    /\ resp[1].status = 200 /\ resp[1].rows = 2
    /\ calls[1] = 1 /\ sqlret[1].success
    /\ \E r1, r2 \in BagToSet(table) : KeyOf(r1) # KeyOf(r2)

====
